---- MODULE Spec2Model ----
(***************************************************************************)
(* State-machine model of the pwa_backend HTTP service (src/index.js; the  *)
(* route handlers of src/unnamed/part_000 are line-for-line the same).     *)
(*                                                                         *)
(* Every request is one asynchronous task.  A handler runs without         *)
(* interruption from the arrival of the request to its first `await`, and  *)
(* from the completion of one awaited call to the next `await` or to the   *)
(* response.  One action of the model is one such run: the arrival action  *)
(* covers the auth middleware and the synchronous checks of the handler,   *)
(* and each later action is the execution of the awaited call by the       *)
(* identity provider or by the profiles table together with the handler's  *)
(* code that consumes its result.  Every external call may fail.           *)
(***************************************************************************)
EXTENDS Integers, Sequences, FiniteSets, TLC

\* ----------------------------------------------------------------- bounds
MaxTokens == 1     \* issued tokens the clients keep and send again
MaxNow == 8        \* last day of the simulated clock

\* -------------------------------------------------------------- constants
ExpiresIn == 7                       \* expiresIn: "7d", in days
JWT_SECRET == "YOUR_SECRET_KEY"      \* process.env.JWT_SECRET || "YOUR_SECRET_KEY"
OtherSecret == "attacker-key"        \* any secret that is not the configured one

Undefined == "undefined"             \* a field the JSON body does not carry
Emails == {"root@x.com", "a@x.com"}
Passwords == {"p", "q"}
Usernames == {"a", "b"}
Roles == {"user", "admin"}

Slots == {1, 2}                      \* two requests are served at the same time
Ids == 1..Cardinality(Emails)        \* the provider has one account per email

\* ------------------------------------------------------------------ state
VARIABLES
    accounts,   \* identity provider: sequence of [email, password]; the id is the index
    profiles,   \* profiles table: function id -> [email, username, role]
    tokens,     \* the tokens POST /auth/login has issued (held by the clients)
    now,        \* the clock, in days
    req         \* the requests: function slot -> request record

vars == <<accounts, profiles, tokens, now, req>>

\* ------------------------------------------------------- session token codec
NoPayload == [id |-> 0, email |-> "", role |-> "", iat |-> 0, exp |-> 0]

\* one whitespace-separated part of an Authorization header: a piece of text
\* that is no token, or a signed token
Text(s) == [jwt |-> FALSE, text |-> s, payload |-> NoPayload, key |-> ""]

Jwt(payload, key) == [jwt |-> TRUE, text |-> "", payload |-> payload, key |-> key]

\* jwt.sign(claims, secret, {expiresIn: "7d"}) at time t: the payload is the
\* claims plus iat and exp = iat + 7 days, signed with the secret
JwtSign(claims, secret, t) ==
    Jwt([id |-> claims.id, email |-> claims.email, role |-> claims.role,
         iat |-> t, exp |-> t + ExpiresIn], secret)

JwtVerifiesLate(token, secret, t) ==
    /\ token.jwt
    /\ token.key = secret
    /\ ~(t > token.payload.exp)

\* jwt.verify(token, secret) at time t does not throw: the token is well
\* formed, its signature was made with the secret, and it has not expired (the
\* library rejects a token once the clock has reached exp)
JwtVerifies(token, secret, t) ==
    /\ token.jwt
    /\ token.key = secret
    /\ ~(t >= token.payload.exp)

\* header.split(" ")[1]
SplitSecond(header) ==
    IF Len(header) >= 2 THEN header[2] ELSE Text(Undefined)

NoHeader == << >>

\* ------------------------------------------------------------- the requests
NoBody == [email |-> Undefined, password |-> Undefined,
           username |-> Undefined, role |-> Undefined]

NoUser == [id |-> 0, email |-> "", username |-> "", role |-> ""]

Idle == [route |-> "", pc |-> "idle", header |-> NoHeader, body |-> NoBody,
         id |-> 0, user |-> NoPayload, authUser |-> 0,
         status |-> 0, message |-> "", token |-> Text(""), resUser |-> NoUser,
         data |-> << >>]

\* a slot is free before its first request and after a response
Free(r) == req[r].pc \in {"idle", "done"}

\* a request arrives in the first free slot (the slots are interchangeable)
Accepts(r) == Free(r) /\ \A s \in Slots : s < r => ~Free(s)

Arrive(route, header, body, id) ==
    [Idle EXCEPT !.route = route, !.header = header, !.body = body, !.id = id]

\* res.status(s).json({message: m})
Respond(q, s, m) == [q EXCEPT !.pc = "done", !.status = s, !.message = m]

\* ------------------------------------------------- the external collaborators
\* the account id the provider holds for an email, 0 when it holds none
AccountOf(email) ==
    IF \E i \in 1..Len(accounts) : accounts[i].email = email
    THEN CHOOSE i \in 1..Len(accounts) : accounts[i].email = email
    ELSE 0

\* supabase.auth.admin.createUser can succeed
CanCreateUser(email, password) ==
    /\ email # Undefined
    /\ password # Undefined
    /\ AccountOf(email) = 0

SignInAnyPassword(email, password) == AccountOf(email)

\* supabase.auth.signInWithPassword: the id of the signed-in user, 0 on error
SignInWithPassword(email, password) ==
    IF AccountOf(email) # 0 /\ accounts[AccountOf(email)].password = password
    THEN AccountOf(email)
    ELSE 0

\* the row of .from("profiles").insert({id, email, username, role})
ProfileRow(email, username, role) ==
    [email |-> email, username |-> username, role |-> role]

InsertProfile(id, row) ==
    [i \in DOMAIN profiles \cup {id} |-> IF i = id THEN row ELSE profiles[i]]

\* the row as the API returns it: the columns and the key
Selected(id) ==
    [id |-> id, email |-> profiles[id].email,
     username |-> profiles[id].username, role |-> profiles[id].role]

\* ------------------------------------------------------------------- Init
RootAccount == [email |-> "root@x.com", password |-> "p"]
RootProfile == ProfileRow("root@x.com", "a", "admin")

UserAccount == [email |-> "a@x.com", password |-> "p"]
UserProfile == ProfileRow("a@x.com", "a", "user")

Start ==
    /\ tokens = {}
    /\ now = 0
    /\ req = [r \in Slots |-> Idle]

\* an empty project, or one whose first administrator was seeded by hand (no
\* route can create the first administrator)
Init ==
    /\ \/ accounts = << >> /\ profiles = << >>
       \/ accounts = <<RootAccount>> /\ profiles = <<RootProfile>>
    /\ Start

\* the project after POST /auth/register has added a user to the seeded one
InitUsers ==
    /\ accounts = <<RootAccount, UserAccount>>
    /\ profiles = <<RootProfile, UserProfile>>
    /\ Start

\* ------------------------------------------------------------ the auth middleware
\* the Authorization headers a client can send: none, a scheme without a
\* token, a token that is no JWT, a token signed with another secret, and the
\* tokens the service has issued
Forged(t) ==
    JwtSign([id |-> 1, email |-> "root@x.com", role |-> "admin"], OtherSecret, t)

Headers ==
    {NoHeader, <<Text("Bearer")>>, <<Text("Bearer"), Text("garbage")>>,
     <<Text("Bearer"), Forged(now)>>}
    \cup {<<Text("Bearer"), t>> : t \in tokens}

authDecode(q) ==
    IF q.header = NoHeader
    THEN Respond(q, 401, "No token")
    ELSE IF SplitSecond(q.header).jwt
         THEN [q EXCEPT !.pc = "next", !.user = SplitSecond(q.header).payload]
         ELSE Respond(q, 401, "Invalid token")

\* function auth(req, res, next): the request after the middleware has run.
\* pc = "next" stands for the call of next() with req.user set.
auth(q) ==
    IF q.header = NoHeader
    THEN Respond(q, 401, "No token")
    ELSE IF JwtVerifies(SplitSecond(q.header), JWT_SECRET, now)
         THEN [q EXCEPT !.pc = "next", !.user = SplitSecond(q.header).payload]
         ELSE Respond(q, 401, "Invalid token")

AdminOnlyOff(q) == q

\* if (req.user.role !== "admin") return res.status(403)...
AdminOnly(q) ==
    IF q.pc = "next" /\ q.user.role # "admin"
    THEN Respond(q, 403, "Not allowed")
    ELSE q

\* the handler reaches its first awaited call
Await(q, pc) == IF q.pc = "next" THEN [q EXCEPT !.pc = pc] ELSE q

\* ------------------------------------------------------------ POST /auth/register
RegisterBodies ==
    {[email |-> e, password |-> "p", username |-> "a", role |-> ro] :
        e \in Emails, ro \in {Undefined, "admin"}}

RegisterRowOfBody(body) ==
    ProfileRow(body.email, body.username,
               IF body.role # Undefined THEN body.role ELSE "user")

\* the row the register handler inserts
RegisterRow(body) == ProfileRow(body.email, body.username, "user")

Register(r) ==
    /\ Accepts(r)
    /\ \E body \in RegisterBodies :
         req' = [req EXCEPT ![r] =
                   [Arrive("register", NoHeader, body, 0) EXCEPT !.pc = "reg_create"]]
    /\ UNCHANGED <<accounts, profiles, tokens, now>>

RegisterCreateUser(r) ==
    /\ req[r].pc = "reg_create"
    /\ \/ /\ CanCreateUser(req[r].body.email, req[r].body.password)
          /\ accounts' = Append(accounts,
                 [email |-> req[r].body.email, password |-> req[r].body.password])
          /\ req' = [req EXCEPT ![r].pc = "reg_insert",
                                ![r].authUser = Len(accounts) + 1]
       \/ /\ req' = [req EXCEPT ![r] = Respond(@, 400, "provider error")]
          /\ UNCHANGED accounts
    /\ UNCHANGED <<profiles, tokens, now>>

RegisterInsert(r) ==
    /\ req[r].pc = "reg_insert"
    /\ \/ profiles' = InsertProfile(req[r].authUser, RegisterRow(req[r].body))
       \/ UNCHANGED profiles
    /\ req' = [req EXCEPT ![r] = Respond(@, 200, "User registered")]
    /\ UNCHANGED <<accounts, tokens, now>>

\* --------------------------------------------------------------- POST /auth/login
LoginBodies ==
    {[NoBody EXCEPT !.email = e, !.password = p] : e \in Emails, p \in Passwords}

Login(r) ==
    /\ Accepts(r)
    /\ \E body \in LoginBodies :
         req' = [req EXCEPT ![r] =
                   [Arrive("login", NoHeader, body, 0) EXCEPT !.pc = "login_signin"]]
    /\ UNCHANGED <<accounts, profiles, tokens, now>>

LoginSignIn(r) ==
    /\ req[r].pc = "login_signin"
    /\ \/ /\ SignInWithPassword(req[r].body.email, req[r].body.password) # 0
          /\ req' = [req EXCEPT ![r].pc = "login_select",
                                ![r].authUser =
                                    SignInWithPassword(req[r].body.email,
                                                       req[r].body.password)]
       \/ req' = [req EXCEPT ![r] = Respond(@, 401, "Invalid credentials")]
    /\ UNCHANGED <<accounts, profiles, tokens, now>>

LoginClaimsOfAdmin(profile) ==
    [id |-> profile.id, email |-> profile.email, role |-> "admin"]

\* the claims the login handler signs
LoginClaims(profile) ==
    [id |-> profile.id, email |-> profile.email, role |-> profile.role]

\* the clients keep the tokens they are sent, up to MaxTokens of them
Keep(token) ==
    IF Cardinality(tokens) < MaxTokens THEN tokens \cup {token} ELSE tokens

LoginSelect(r) ==
    /\ req[r].pc = "login_select"
    /\ \/ /\ req[r].authUser \in DOMAIN profiles
          /\ LET profile == Selected(req[r].authUser)
                 token == JwtSign(LoginClaims(profile), JWT_SECRET, now)
             IN /\ tokens' = Keep(token)
                /\ req' = [req EXCEPT ![r] =
                             [Respond(@, 200, "") EXCEPT !.token = token,
                                                         !.resUser = profile]]
       \/ /\ req' = [req EXCEPT ![r] = Respond(@, 500, "Profile not found")]
          /\ UNCHANGED tokens
    /\ UNCHANGED <<accounts, profiles, now>>

\* the response of the login handler to a body when its two calls go through
LoginResponse(body) ==
    LET id == SignInWithPassword(body.email, body.password)
    IN IF id = 0
       THEN [status |-> 401, user |-> NoUser]
       ELSE IF id \notin DOMAIN profiles
            THEN [status |-> 500, user |-> NoUser]
            ELSE [status |-> 200, user |-> Selected(id)]

\* ------------------------------------------------------------------ GET /auth/me
Me(r) ==
    /\ Accepts(r)
    /\ \E header \in Headers :
         req' = [req EXCEPT ![r] =
                   Await(auth(Arrive("me", header, NoBody, 0)), "me_select")]
    /\ UNCHANGED <<accounts, profiles, tokens, now>>

MeSelect(r) ==
    /\ req[r].pc = "me_select"
    /\ \/ /\ req[r].user.id \in DOMAIN profiles
          /\ req' = [req EXCEPT ![r] =
                       [Respond(@, 200, "") EXCEPT !.resUser = Selected(req[r].user.id)]]
       \/ req' = [req EXCEPT ![r] = Respond(@, 500, "Profile not found")]
    /\ UNCHANGED <<accounts, profiles, tokens, now>>

\* ------------------------------------------------------------ GET /admin/all-users
AllUsers(r) ==
    /\ Accepts(r)
    /\ \E header \in Headers :
         req' = [req EXCEPT ![r] =
                   Await(AdminOnly(auth(Arrive("all-users", header, NoBody, 0))),
                         "all_select")]
    /\ UNCHANGED <<accounts, profiles, tokens, now>>

AllUsersSelect(r) ==
    /\ req[r].pc = "all_select"
    /\ \/ req' = [req EXCEPT ![r] = [Respond(@, 200, "") EXCEPT !.data = profiles]]
       \/ req' = [req EXCEPT ![r] = Respond(@, 500, "Error fetching users")]
    /\ UNCHANGED <<accounts, profiles, tokens, now>>

\* ---------------------------------------------------------- POST /admin/create-user
CreateUserBodies ==
    {[email |-> e, password |-> "p", username |-> "a", role |-> ro] :
        e \in Emails, ro \in Roles \cup {Undefined}}

\* if (!email || !password || !username || !role) return res.status(400)...
AllFields(q, body) ==
    IF q.pc # "next"
    THEN q
    ELSE IF \/ body.email = Undefined \/ body.password = Undefined
            \/ body.username = Undefined \/ body.role = Undefined
         THEN Respond([q EXCEPT !.body = body], 400, "All fields required")
         ELSE [q EXCEPT !.body = body]

CreateUser(r) ==
    /\ Accepts(r)
    /\ \E header \in Headers :
         LET q == AdminOnly(auth(Arrive("create-user", header, NoBody, 0)))
         IN IF q.pc = "next"
            THEN \E body \in CreateUserBodies :
                   req' = [req EXCEPT ![r] = Await(AllFields(q, body), "cu_create")]
            ELSE req' = [req EXCEPT ![r] = q]
    /\ UNCHANGED <<accounts, profiles, tokens, now>>

CreateUserCreateUser(r) ==
    /\ req[r].pc = "cu_create"
    /\ \/ /\ CanCreateUser(req[r].body.email, req[r].body.password)
          /\ accounts' = Append(accounts,
                 [email |-> req[r].body.email, password |-> req[r].body.password])
          /\ req' = [req EXCEPT ![r].pc = "cu_insert",
                                ![r].authUser = Len(accounts) + 1]
       \/ /\ req' = [req EXCEPT ![r] = Respond(@, 400, "provider error")]
          /\ UNCHANGED accounts
    /\ UNCHANGED <<profiles, tokens, now>>

\* the row the create-user handler inserts
CreateUserRow(body) == ProfileRow(body.email, body.username, body.role)

CreateUserInsert(r) ==
    /\ req[r].pc = "cu_insert"
    /\ \/ /\ profiles' = InsertProfile(req[r].authUser, CreateUserRow(req[r].body))
          /\ req' = [req EXCEPT ![r] = Respond(@, 200, "User created successfully")]
       \/ /\ req' = [req EXCEPT ![r] = Respond(@, 500, "Profile insert failed")]
          /\ UNCHANGED profiles
    /\ UNCHANGED <<accounts, tokens, now>>

\* ------------------------------------------------------- PUT /admin/update-user/:id
\* bodies that change the role, which is a column of the profile alone
RoleBodies == {[NoBody EXCEPT !.role = ro] : ro \in Roles}

\* bodies that change the username alone, or the email, which is the login
\* email of the provider too
ContactBodies == {[NoBody EXCEPT !.username = "b"], [NoBody EXCEPT !.email = "b@x.com"]}

\* bodies that change the email to one of two
EmailBodies == {[NoBody EXCEPT !.email = e] : e \in {"a@x.com", "b@x.com"}}

PatchedAll(row, body) ==
    [email |-> body.email, username |-> body.username, role |-> body.role]

\* .update({email, username, role}): a column whose value is undefined is not
\* in the JSON the client sends, and keeps its value
Patched(row, body) ==
    [email    |-> IF body.email # Undefined THEN body.email ELSE row.email,
     username |-> IF body.username # Undefined THEN body.username ELSE row.username,
     role     |-> IF body.role # Undefined THEN body.role ELSE row.role]

\* .update(...).eq("id", id): the rows with that id, none is no error
UpdateProfile(id, body) ==
    [i \in DOMAIN profiles |->
        IF i = id THEN Patched(profiles[i], body) ELSE profiles[i]]

\* supabase.auth.admin.updateUserById(id, {email}) can succeed
CanUpdateUserById(id, email) ==
    /\ id \in 1..Len(accounts)
    /\ AccountOf(email) \in {0, id}

\* if (email): undefined and "" are falsy
Truthy(v) == v # Undefined /\ v # ""

UpdateUser(r, bodies) ==
    /\ Accepts(r)
    /\ \E header \in Headers :
         LET q == AdminOnly(auth(Arrive("update-user", header, NoBody, 0)))
         IN IF q.pc = "next"
            THEN \E id \in Ids, body \in bodies :
                   req' = [req EXCEPT ![r] =
                             [q EXCEPT !.pc = "uu_update", !.id = id, !.body = body]]
            ELSE req' = [req EXCEPT ![r] = q]
    /\ UNCHANGED <<accounts, profiles, tokens, now>>

UpdateUserUpdate(r) ==
    /\ req[r].pc = "uu_update"
    /\ \/ /\ profiles' = UpdateProfile(req[r].id, req[r].body)
          /\ req' = [req EXCEPT ![r] =
                       IF Truthy(req[r].body.email)
                       THEN [@ EXCEPT !.pc = "uu_auth"]
                       ELSE Respond(@, 200, "User updated successfully")]
       \/ /\ req' = [req EXCEPT ![r] = Respond(@, 400, "store error")]
          /\ UNCHANGED profiles
    /\ UNCHANGED <<accounts, tokens, now>>

UpdateUserAuth(r) ==
    /\ req[r].pc = "uu_auth"
    /\ \/ /\ CanUpdateUserById(req[r].id, req[r].body.email)
          /\ accounts' = [accounts EXCEPT ![req[r].id].email = req[r].body.email]
          /\ req' = [req EXCEPT ![r] = Respond(@, 200, "User updated successfully")]
       \/ /\ req' = [req EXCEPT ![r] = Respond(@, 400, "provider error")]
          /\ UNCHANGED accounts
    /\ UNCHANGED <<profiles, tokens, now>>

\* ------------------------------------------------------------------ the clock
Tick ==
    /\ now < MaxNow
    /\ now' = now + 1
    /\ UNCHANGED <<accounts, profiles, tokens, req>>

\* ------------------------------------------------------------ specifications
Accounts(r) ==
    \/ Register(r)
    \/ RegisterCreateUser(r)
    \/ RegisterInsert(r)
    \/ CreateUser(r)
    \/ CreateUserCreateUser(r)
    \/ CreateUserInsert(r)

Sessions(r) ==
    \/ Login(r)
    \/ LoginSignIn(r)
    \/ LoginSelect(r)
    \/ Me(r)
    \/ MeSelect(r)
    \/ AllUsers(r)
    \/ AllUsersSelect(r)

\* the six routes; the administrators change roles
Next ==
    \E r \in Slots :
        \/ Accounts(r)
        \/ Sessions(r)
        \/ UpdateUser(r, RoleBodies)
        \/ UpdateUserUpdate(r)

Spec == Init /\ [][Next]_vars

\* the administration of two existing users, whose usernames and emails the
\* administrators change
NextAdmin ==
    \E r \in Slots :
        \/ Sessions(r)
        \/ UpdateUser(r, ContactBodies)
        \/ UpdateUserUpdate(r)
        \/ UpdateUserAuth(r)

SpecAdmin == InitUsers /\ [][NextAdmin]_vars

\* two administrators change the emails of two existing users
NextRace ==
    \E r \in Slots :
        \/ Login(r)
        \/ LoginSignIn(r)
        \/ LoginSelect(r)
        \/ UpdateUser(r, EmailBodies)
        \/ UpdateUserUpdate(r)
        \/ UpdateUserAuth(r)

SpecRace == InitUsers /\ [][NextRace]_vars

\* the sessions of two existing users while the clock runs
NextClock ==
    \/ Tick
    \/ \E r \in Slots :
         \/ Login(r)
         \/ LoginSignIn(r)
         \/ LoginSelect(r)
         \/ Me(r)
         \/ MeSelect(r)

SpecClock == InitUsers /\ [][NextClock]_vars

\* ------------------------------------------------------------------ the claims
AdminRoutes == {"all-users", "create-user", "update-user"}

Protected == AdminRoutes \cup {"me"}

\* the positions at which a handler has an external call pending
Calls == {"me_select", "all_select", "cu_create", "cu_insert", "uu_update", "uu_auth"}

Bearer(q) == SplitSecond(q.header)

\* the request moved in this step
Moved(r) == req'[r] # req[r]

\* the handler was not entered: nothing of the request was read or set
NotEntered(q) ==
    /\ q.pc = "done"
    /\ q.user = NoPayload
    /\ q.body = NoBody
    /\ q.id = 0
    /\ q.authUser = 0
    /\ q.resUser = NoUser
    /\ q.data = << >>

\* C1: no step of a register request leaves a profile that it wrote or changed
\* with a role other than "user", and the insert writes nothing but the row of
\* the account the request created, whatever role the body asks for.
C1_RegisterRoleUser ==
    [][\A r \in Slots :
         (req[r].route = "register" /\ Moved(r)) =>
            /\ \A i \in DOMAIN profiles :
                 i \in DOMAIN profiles' /\ (i # req[r].authUser => profiles'[i] = profiles[i])
            /\ \A i \in DOMAIN profiles' :
                 \/ i \in DOMAIN profiles /\ profiles'[i] = profiles[i]
                 \/ i = req[r].authUser /\ req[r].pc = "reg_insert"
                    /\ profiles'[i].role = "user"]_vars

C1_Witness ==
    \E r \in Slots :
        /\ req[r].route = "register" /\ req[r].pc = "done" /\ req[r].status = 200
        /\ req[r].body.role = "admin"
        /\ req[r].authUser \in DOMAIN profiles
        /\ profiles[req[r].authUser].role = "user"

\* a request of an admin route that carries a token the service accepts and
\* whose role claim is not "admin"
NonAdmin(q) ==
    /\ q.route \in AdminRoutes
    /\ Bearer(q).jwt /\ Bearer(q).key = JWT_SECRET /\ now < Bearer(q).payload.exp
    /\ Bearer(q).payload.role # "admin"

\* C2: a request of an admin route with a valid token whose role is not "admin"
\* is answered 403 "Not allowed" in the step in which it arrives: it is never at
\* a position where a call is pending, and that step changes neither the
\* accounts nor the profiles.
C2_NonAdminForbidden ==
    /\ [](\A r \in Slots :
            NonAdmin(req[r]) =>
               /\ req[r].pc = "done"
               /\ req[r].status = 403 /\ req[r].message = "Not allowed"
               /\ req[r].body = NoBody /\ req[r].authUser = 0 /\ req[r].data = << >>)
    /\ [][\A r \in Slots :
            (Moved(r) /\ NonAdmin(req'[r])) =>
               accounts' = accounts /\ profiles' = profiles /\ tokens' = tokens]_vars

C2_Witness ==
    \E r, s \in Slots :
        /\ NonAdmin(req[r]) /\ req[r].route = "create-user" /\ req[r].status = 403
        /\ NonAdmin(req[s]) /\ req[s].route = "update-user" /\ req[s].status = 403

\* C3: on a protected route, a request without an Authorization header is
\* answered 401 "No token", and one whose header carries no token, text that is
\* no token, or a token signed with another secret is answered 401 "Invalid
\* token"; in both cases the handler was not entered.
C3_Unauthorized ==
    \A r \in Slots :
        req[r].route \in Protected =>
           /\ req[r].header = NoHeader =>
                 /\ req[r].status = 401 /\ req[r].message = "No token"
                 /\ NotEntered(req[r])
           /\ (req[r].header # NoHeader
               /\ (~Bearer(req[r]).jwt \/ Bearer(req[r]).key # JWT_SECRET)) =>
                 /\ req[r].status = 401 /\ req[r].message = "Invalid token"
                 /\ NotEntered(req[r])

C3_Witness ==
    \E r, s \in Slots :
        /\ req[r].route = "me" /\ req[r].header = NoHeader /\ req[r].status = 401
        /\ req[s].route \in AdminRoutes /\ Bearer(req[s]).key = OtherSecret
        /\ req[s].status = 401 /\ req[s].message = "Invalid token"

\* the claims of a payload
ClaimsOf(payload) == [id |-> payload.id, email |-> payload.email, role |-> payload.role]

\* the request GET /auth/me with a token, after the middleware
Presented(t) == auth(Arrive("me", <<Text("Bearer"), t>>, NoBody, 0))

C5_ProfileIffAccount ==
    (\A r \in Slots : req[r].pc \notin {"reg_insert", "cu_insert"}) =>
        DOMAIN profiles = 1..Len(accounts)

\* the provider holds no account with the email and the password of the body
WrongCredentials(body) ==
    ~ \E i \in 1..Len(accounts) :
          accounts[i].email = body.email /\ accounts[i].password = body.password

\* C6: a login whose sign-in has been answered and whose credentials the
\* provider does not hold was answered 401 "Invalid credentials" without a
\* profile lookup and without a token; a login carries a token only after the
\* sign-in gave a user and the lookup gave the profile of that user.
C6_InvalidCredentials ==
    \A r \in Slots :
        req[r].route = "login" =>
           /\ (req[r].pc # "login_signin" /\ WrongCredentials(req[r].body)) =>
                 /\ req[r].pc = "done"
                 /\ req[r].status = 401 /\ req[r].message = "Invalid credentials"
           /\ req[r].status = 401 =>
                 /\ req[r].message = "Invalid credentials"
                 /\ req[r].authUser = 0
                 /\ ~req[r].token.jwt /\ req[r].resUser = NoUser
           /\ req[r].token.jwt =>
                 /\ req[r].pc = "done" /\ req[r].status = 200
                 /\ ~WrongCredentials(req[r].body)
                 /\ req[r].authUser \in 1..Len(accounts)
                 /\ accounts[req[r].authUser].email = req[r].body.email
                 /\ req[r].resUser.id = req[r].authUser
                 /\ ClaimsOf(req[r].token.payload) =
                       [id |-> req[r].resUser.id, email |-> req[r].resUser.email,
                        role |-> req[r].resUser.role]

C6_Witness ==
    \E r \in Slots :
        /\ req[r].route = "login" /\ req[r].pc = "done"
        /\ req[r].body.email = "root@x.com" /\ req[r].body.password = "q"
        /\ AccountOf("root@x.com") # 0
        /\ req[r].status = 401 /\ ~req[r].token.jwt

\* a body that supplies the username and neither the email nor the role
OnlyUsername(body) ==
    body.username # Undefined /\ body.email = Undefined /\ body.role = Undefined

\* C7: the update step of an admin update-user whose body supplies only the
\* username ends the request without a provider call and leaves the accounts
\* unchanged; answered 200, it has set the username of the profile with the
\* id of the path and changed nothing else of any profile.
C7_OnlyUsername ==
    [][\A r \in Slots :
         (req[r].pc = "uu_update" /\ Moved(r) /\ OnlyUsername(req[r].body)) =>
            /\ accounts' = accounts
            /\ req'[r].pc = "done"
            /\ DOMAIN profiles' = DOMAIN profiles
            /\ req'[r].status # 200 => profiles' = profiles
            /\ req'[r].status = 200 =>
                  /\ req'[r].message = "User updated successfully"
                  /\ \A i \in DOMAIN profiles :
                       IF i = req[r].id
                       THEN profiles'[i] =
                               [profiles[i] EXCEPT !.username = req[r].body.username]
                       ELSE profiles'[i] = profiles[i]]_vars

C7_Witness ==
    \E r \in Slots :
        /\ req[r].route = "update-user" /\ req[r].pc = "done" /\ req[r].status = 200
        /\ OnlyUsername(req[r].body) /\ req[r].id = 2
        /\ profiles[2] = [UserProfile EXCEPT !.username = "b"]
        /\ profiles[1] = RootProfile
        /\ accounts = <<RootAccount, UserAccount>>

\* C8: once register has answered 200, a login with the same credentials is
\* answered 200 with the role "user", as long as no update of that user is on
\* record.
C8_RegisterThenLogin ==
    \A r \in Slots :
        (/\ req[r].route = "register" /\ req[r].pc = "done" /\ req[r].status = 200
         /\ ~ \E s \in Slots : req[s].route = "update-user" /\ req[s].id = req[r].authUser) =>
            /\ LoginResponse(req[r].body).status = 200
            /\ LoginResponse(req[r].body).user.role = "user"

\* the request arrives in this step and passes the role check of an admin route
Admitted(r) ==
    /\ Free(r) /\ Moved(r)
    /\ req'[r].route \in AdminRoutes
    /\ req'[r].pc \in Calls

\* C9 as stated: when an admin handler passes its role check, the profile of
\* the user of the token has the role "admin".
C9_AdminNow ==
    [][\A r \in Slots :
         Admitted(r) =>
            /\ req'[r].user.id \in DOMAIN profiles
            /\ profiles[req'[r].user.id].role = "admin"]_vars

\* C9 as amended: a request that has passed the role check of an admin route
\* carries a token the clients were sent by login, signed with the secret, not
\* expired, with the role claim "admin"; and the role claim of a token is the
\* role the profile had when login issued it.
C9_AdminToken ==
    /\ [](\A r \in Slots :
            (/\ req[r].route \in AdminRoutes
             /\ \/ req[r].pc \in Calls
                \/ req[r].pc = "done" /\ req[r].status \notin {401, 403}) =>
               /\ Bearer(req[r]) \in tokens
               /\ Bearer(req[r]).payload.role = "admin"
               /\ req[r].user = Bearer(req[r]).payload)
    /\ [](\A t \in tokens : t.jwt /\ t.key = JWT_SECRET /\ now < t.payload.exp)
    /\ [][\A r \in Slots :
            (Moved(r) /\ req'[r].token.jwt) =>
               /\ req[r].authUser \in DOMAIN profiles
               /\ req'[r].token.payload.id = req[r].authUser
               /\ req'[r].token.payload.role = profiles[req[r].authUser].role
               /\ tokens' \subseteq tokens \cup {req'[r].token}]_vars

C9_Witness ==
    \E r \in Slots :
        /\ req[r].route = "all-users" /\ req[r].pc = "all_select"
        /\ Bearer(req[r]) \in tokens
        /\ req[r].user.role = "admin"
        /\ profiles[req[r].user.id].role = "user"

\* C10: when two update-user requests for the same id that both supply an
\* email have been answered 200, the email of the profile is the login email
\* of the account.
C10_EmailsAgree ==
    \A r, s \in Slots :
        (/\ r # s
         /\ req[r].route = "update-user" /\ req[s].route = "update-user"
         /\ req[r].id = req[s].id
         /\ Truthy(req[r].body.email) /\ Truthy(req[s].body.email)
         /\ req[r].pc = "done" /\ req[r].status = 200
         /\ req[s].pc = "done" /\ req[s].status = 200) =>
            /\ req[r].id \in DOMAIN profiles
            /\ profiles[req[r].id].email = accounts[req[r].id].email
====
